---- MODULE Spec2Model ----
(***************************************************************************)
(* Order-tracking chat bot (src/main.py): two SQLite tables (customers,    *)
(* status_ranges), one FSM session per user (aiogram MemoryStorage), and   *)
(* the message / callback handlers in the order the router registers them. *)
(*                                                                         *)
(* Strings are sequences of characters (one-character TLA+ strings), so    *)
(* that strip, upper, slicing, strptime and SQLite's byte-wise comparison  *)
(* are computed as the code computes them.  A literal that the code only   *)
(* ever treats as a unit (a menu label, "/start", the "/delete_" prefix,   *)
(* a callback prefix) is written as a single element of the sequence.      *)
(*                                                                         *)
(* Not modelled: created_at time stamps (never read back by any decision), *)
(* the rendering of keyboards, and failures of the chat transport (every   *)
(* answer / edit_text call is taken to return).                            *)
(***************************************************************************)
EXTENDS Integers, Sequences, FiniteSets, TLC

VARIABLES
    customers,      \* table customers: set of rows
    status_ranges,  \* table status_ranges: set of rows
    seq,            \* sqlite_sequence entry of status_ranges (AUTOINCREMENT)
    fsm_state,      \* MemoryStorage: user -> current FSM state
    fsm_data,       \* MemoryStorage: user -> collected fields
    reply,          \* the answer the last handler sent
    run             \* history: per user, the inputs accepted since the last clear()

vars == <<customers, status_ranges, seq, fsm_state, fsm_data, reply, run>>

----------------------------------------------------------------------------
(* Bounds of the model *)

\* highest user id; user ids are 0..MaxUser
MaxUser == 1
\* number of rows ever inserted into status_ranges
MaxRanges == 2
\* number of tokens the generator is asked for in one save_customer_order
MaxProposals == 2
\* the rows of status_ranges ever inserted where orders are registered too
MaxFullRanges == 1

(* Program constants *)

ADMIN_ID == 0
InfoMaxLen == 100
OrderIdLen == 8

Users == 0..MaxUser

----------------------------------------------------------------------------
(* Characters and strings *)

DIGITS == <<"0", "1", "2", "3", "4", "5", "6", "7", "8", "9">>

IsDigit(c) == \E i \in 1..10 : DIGITS[i] = c

DigitVal(c) == (CHOOSE i \in 1..10 : DIGITS[i] = c) - 1

DigitChar(n) == DIGITS[n + 1]

\* the characters that occur in stored dates, in the order of their byte values
BYTE_ORDER == <<" ", ".", "0", "1", "2", "3", "4", "5", "6", "7", "8", "9">>

Ord(c) == IF \E i \in 1..Len(BYTE_ORDER) : BYTE_ORDER[i] = c
          THEN CHOOSE i \in 1..Len(BYTE_ORDER) : BYTE_ORDER[i] = c
          ELSE Len(BYTE_ORDER) + 1

Min(a, b) == IF a <= b THEN a ELSE b

\* SQLite BINARY collation on TEXT: memcmp on the common prefix, then length
StrLE(a, b) ==
    LET n == Min(Len(a), Len(b))
        diff == {i \in 1..n : a[i] # b[i]}
    IN  IF diff = {} THEN Len(a) <= Len(b)
        ELSE LET k == CHOOSE i \in diff : \A j \in diff : i <= j
             IN  Ord(a[k]) < Ord(b[k])

\* str.strip(): leading and trailing blanks removed
Strip(s) ==
    LET keep == {i \in 1..Len(s) : s[i] # " "}
    IN  IF keep = {} THEN << >>
        ELSE LET lo == CHOOSE i \in keep : \A j \in keep : i <= j
                 hi == CHOOSE i \in keep : \A j \in keep : i >= j
             IN  SubSeq(s, lo, hi)

UpperChar(c) ==
    CASE c = "a" -> "A" [] c = "b" -> "B" [] c = "c" -> "C"
      [] c = "d" -> "D" [] c = "e" -> "E" [] c = "f" -> "F"
      [] c = "x" -> "X"
      [] OTHER -> c

\* str.upper()
Upper(s) == [i \in 1..Len(s) |-> UpperChar(s[i])]

\* faulty variant: the slice is missing
Take_All(s, n) == s

\* s[:n]
Take(s, n) == SubSeq(s, 1, Min(Len(s), n))

\* s.startswith(p) for a one-element prefix p
StartsWith(s, p) == Len(s) >= 1 /\ s[1] = p

\* s.replace(p, '') for a one-element p
Remove(s, p) == SelectSeq(s, LAMBDA c : c # p)

RECURSIVE DigitsValue(_)
DigitsValue(s) ==
    IF Len(s) = 0 THEN 0
    ELSE 10 * DigitsValue(SubSeq(s, 1, Len(s) - 1)) + DigitVal(s[Len(s)])

AllDigits(s) == \A i \in 1..Len(s) : IsDigit(s[i])


\* int(s): a run of decimal digits, anything else raises ValueError
IntOk(s) == Len(s) >= 1 /\ AllDigits(s)

----------------------------------------------------------------------------
(* Dates *)

Fail == [ok |-> FALSE]

IsLeap(y) == (y % 4 = 0 /\ y % 100 # 0) \/ y % 400 = 0

DaysInMonth(m, y) ==
    IF m = 2 THEN (IF IsLeap(y) THEN 29 ELSE 28)
    ELSE IF m \in {4, 6, 9, 11} THEN 30 ELSE 31

\* the %d group of strptime: 3[0-1] | [1-2]\d | 0[1-9] | [1-9] | " "[1-9]
DayField(f) ==
    \/ Len(f) = 2 /\ AllDigits(f) /\ DigitsValue(f) \in 1..31
    \/ Len(f) = 1 /\ AllDigits(f) /\ DigitsValue(f) \in 1..9
    \/ Len(f) = 2 /\ f[1] = " " /\ IsDigit(f[2]) /\ DigitVal(f[2]) \in 1..9

\* the %m group of strptime: 1[0-2] | 0[1-9] | [1-9]
MonthField(f) ==
    \/ Len(f) = 2 /\ AllDigits(f) /\ DigitsValue(f) \in 1..12
    \/ Len(f) = 1 /\ AllDigits(f) /\ DigitsValue(f) \in 1..9

\* the %Y group of strptime: \d\d\d\d
YearField(f) == Len(f) = 4 /\ AllDigits(f)

\* datetime.strptime(s, '%d.%m.%Y'): the parsed date, or Fail for ValueError
StrpTime(s) ==
    LET dots == {i \in 1..Len(s) : s[i] = "."}
    IN  IF Cardinality(dots) # 2 THEN Fail
        ELSE LET p1 == CHOOSE i \in dots : \A j \in dots : i <= j
                 p2 == CHOOSE i \in dots : \A j \in dots : i >= j
                 f1 == SubSeq(s, 1, p1 - 1)
                 f2 == SubSeq(s, p1 + 1, p2 - 1)
                 f3 == SubSeq(s, p2 + 1, Len(s))
             IN  IF ~(DayField(f1) /\ MonthField(f2) /\ YearField(f3)) THEN Fail
                 ELSE LET d == DigitsValue(Strip(f1))
                          m == DigitsValue(f2)
                          y == DigitsValue(f3)
                      IN  IF y >= 1 /\ d <= DaysInMonth(m, y)
                          THEN [ok |-> TRUE, day |-> d, month |-> m, year |-> y]
                          ELSE Fail

\* faulty variant: only the shape dd.dd.dddd is looked at
validate_date_ShapeOnly(date_str) ==
    /\ Len(date_str) = 10
    /\ \A i \in 1..10 : IF i \in {3, 6} THEN date_str[i] = "." ELSE IsDigit(date_str[i])

\* faulty variant: every text passes for a date
validate_date_Any(date_str) == TRUE

validate_date(date_str) == StrpTime(date_str).ok

\* str(n).zfill(w) for the dates the inputs are built from
RECURSIVE ZFill(_, _)
ZFill(n, w) == IF w = 0 THEN << >> ELSE ZFill(n \div 10, w - 1) \o <<DigitChar(n % 10)>>

\* the text DD.MM.YYYY of a day, a month and a year
DateText(d, m, y) == ZFill(d, 2) \o <<".">> \o ZFill(m, 2) \o <<".">> \o ZFill(y, 4)

----------------------------------------------------------------------------
(* What the users send *)

CMD_START   == <<"/start">>
CMD_ADMIN   == <<"/admin">>
LBL_MY_STATUS      == <<"[My status]">>
LBL_CHANGE_DATE    == <<"[Change date]">>
LBL_SET_STATUSES   == <<"[Set statuses]">>
LBL_VIEW_RANGES    == <<"[View ranges]">>
LBL_MANAGE_PAYMENT == <<"[Manage payment]">>
LBL_EXIT_ADMIN     == <<"[Exit admin]">>

\* a message with no text (a photo, a sticker): message.text is None
NoText == <<"<None>">>

\* "/delete_<n>"
DeleteCmd(n) == <<"/delete_">> \o (IF n = 0 THEN <<"0">> ELSE
                    LET w == IF n < 10 THEN 1 ELSE 2 IN ZFill(n, w))

\* the tokens uuid4 is taken to yield: 8 characters of 0-9A-F; one more token
\* than there can be rows, so that the loop of save_customer_order can end
HEX == <<"A", "1", "B", "2", "C", "3", "D", "4", "E", "5", "F">>
Token(k) == [i \in 1..OrderIdLen |-> HEX[k]]
Tokens == {Token(k) : k \in 1..(MaxUser + 2)}

\* the token sequences the generator may yield during one save
Proposals == UNION {[1..n -> Tokens] : n \in 1..MaxProposals}

\* texts validate_date rejects: a label, a wrong separator, no such day
BadDates == {LBL_MANAGE_PAYMENT, CMD_START,
             <<"0", "1", "-", "1", "1", "-", "2", "0", "2", "5">>,
             DateText(31, 2, 2025)}

\* a comment of InfoMaxLen + 1 characters, and a short one padded with blanks
LongInfo  == [i \in 1..(InfoMaxLen + 1) |-> "x"]
ShortInfo == <<" ", "o", "k", " ">>

\* a date padded with a blank, for strip()
Padded(d) == <<" ">> \o d

LowerA == <<" ", "a", "a", "a", "a", "a", "a", "a", "a">>

DeleteInputs == {DeleteCmd(n) : n \in 1..(MaxRanges + 1)} \cup {<<"/delete_", "x">>}

\* the commands and labels of the administrator's operations
AdminTexts == {CMD_ADMIN, LBL_SET_STATUSES, LBL_VIEW_RANGES, LBL_MANAGE_PAYMENT,
               DeleteCmd(1)}

\* a callback whose data no button of the bot carries
ForgedStatus == <<"status_", "bogus">>

\* The environment in which orders are registered and paid, and the
\* administrator leaves the range dialogue before the comment
OrdersEnv ==
    [order_dates |-> {DateText(7, 11, 2025), DateText(5, 12, 2025)},
     from_dates  |-> {DateText(1, 11, 2025)},
     to_dates    |-> {DateText(10, 11, 2025)},
     statuses    |-> {<<"status_", "waiting">>},
     infos       |-> {},
     max_ranges  |-> MaxRanges]

\* The environment in which ranges are declared and deleted, and no new
\* order date is registered
RangesEnv ==
    [order_dates |-> {},
     from_dates  |-> {DateText(1, 11, 2025), DateText(5, 11, 2025)},
     to_dates    |-> {DateText(10, 11, 2025)},
     statuses    |-> {<<"status_", "waiting">>, <<"status_", "in_transit">>,
                      <<"status_", "delivered">>},
     infos       |-> {ShortInfo, LongInfo},
     max_ranges  |-> MaxRanges]

\* The environment in which both tables are written: one order date, one
\* range, and a status payload that was not offered
FullEnv ==
    [order_dates |-> {DateText(7, 11, 2025)},
     from_dates  |-> {DateText(1, 11, 2025)},
     to_dates    |-> {DateText(10, 11, 2025)},
     statuses    |-> {<<"status_", "waiting">>, ForgedStatus},
     infos       |-> {LBL_MANAGE_PAYMENT},
     max_ranges  |-> MaxFullRanges]

\* texts of a day, a month and a year, padded or not, around the ends of the
\* months, with the right and a wrong separator, and two texts without digits
Field(n, padded) == ZFill(n, IF padded \/ n >= 10 THEN 2 ELSE 1)

DateTexts ==
    {Field(d, pd) \o <<sep>> \o Field(m, pm) \o <<sep>> \o ZFill(y, 4) :
        d \in {0, 1, 29, 31, 32}, m \in {0, 1, 2, 12, 13}, y \in {2024, 2025},
        pd \in BOOLEAN, pm \in BOOLEAN, sep \in {".", "-"}}
    \cup {LBL_MY_STATUS, <<"a", "b", ".", "1", "1", ".", "2", "0", "2", "5">>}

\* what is typed at each prompt
OrderDateInputs(E) ==
    E.order_dates \cup {Padded(d) : d \in E.order_dates} \cup BadDates \cup AdminTexts
                  \cup {NoText}
DateFromInputs(E) == E.from_dates \cup BadDates \cup {NoText}
DateToInputs(E)   == E.to_dates \cup BadDates \cup {NoText}
InfoInputs(E)     == E.infos \cup {CMD_START, NoText}
OrderIdInputs     == Tokens \cup {LowerA, CMD_START, NoText}

\* the callback payloads
CB_REGISTER_ORDER == <<"register_order">>
CB_QUICK_CHECK    == <<"quick_check">>
PaymentPayloads == {<<"payment_", "yes">>, <<"payment_", "no">>}

STATUSES == {<<"waiting">>, <<"in_transit">>, <<"delivered">>}

----------------------------------------------------------------------------
(* The record store *)

\* SELECT ... FROM customers WHERE user_id = ?  (the set of matching rows)
get_customer_by_user_id(cust, user_id) == {r \in cust : r.user_id = user_id}

\* SELECT ... FROM customers WHERE order_id = ?  with order_id.upper()
get_customer_by_order_id(cust, order_id) == {r \in cust : r.order_id = Upper(order_id)}

\* INSERT OR REPLACE: rows that conflict on the PRIMARY KEY user_id or on the
\* UNIQUE order_id are deleted, then the row is inserted
InsertOrReplace(cust, row) ==
    {r \in cust : r.user_id # row.user_id /\ r.order_id # row.order_id} \cup {row}

\* faulty variant: the token is stored without the uniqueness loop
FirstUnused_NoLoop(cust, proposals) == proposals[1]

\* the loop of save_customer_order over the tokens the generator yields:
\* the first token that no row of customers holds
FirstUnused(cust, proposals) ==
    LET free == {i \in 1..Len(proposals) : \A r \in cust : r.order_id # proposals[i]}
    IN  proposals[CHOOSE i \in free : \A j \in free : i <= j]

\* proposals are the tokens one run of the loop draws: the loop goes on
\* while the token is held by a row and stops at the first that is not
LoopRun(cust, proposals) ==
    /\ \A i \in 1..(Len(proposals) - 1) : \E r \in cust : r.order_id = proposals[i]
    /\ \A r \in cust : r.order_id # proposals[Len(proposals)]

\* faulty variant: the paid flag of the row is kept on re-registration
save_customer_order_KeepPaid(cust, user_id, order_date, proposals) ==
    LET old == {r \in cust : r.user_id = user_id}
    IN  InsertOrReplace(cust, [user_id |-> user_id,
                               order_id |-> FirstUnused(cust, proposals),
                               order_date |-> order_date,
                               is_paid |-> IF old = {} THEN TRUE
                                           ELSE (CHOOSE r \in old : TRUE).is_paid])

save_customer_order(cust, user_id, order_date, proposals) ==
    InsertOrReplace(cust, [user_id |-> user_id,
                           order_id |-> FirstUnused(cust, proposals),
                           order_date |-> order_date,
                           is_paid |-> TRUE])

\* WHERE date_from <= ? AND date_to >= ?
RangeMatches(r, order_date) ==
    StrLE(r.date_from, order_date) /\ StrLE(order_date, r.date_to)

NoResult == [found |-> FALSE]

\* ... ORDER BY id DESC LIMIT 1
get_status_for_date(ranges, order_date) ==
    LET hits == {r \in ranges : RangeMatches(r, order_date)}
    IN  IF hits = {} THEN NoResult
        ELSE LET top == CHOOSE r \in hits : \A q \in hits : q.id <= r.id
             IN  [found |-> TRUE, status |-> top.status, info |-> top.info]

MaxOf(S) == IF S = {} THEN 0 ELSE CHOOSE x \in S : \A y \in S : y <= x

\* faulty variant: INTEGER PRIMARY KEY without AUTOINCREMENT: largest id present + 1
NextRangeId_Reuse(ranges, last) == MaxOf({r.id : r \in ranges}) + 1

\* INTEGER PRIMARY KEY AUTOINCREMENT: one more than the largest id ever used,
\* which sqlite_sequence remembers across deletions
NextRangeId(ranges, last) == MaxOf({last} \cup {r.id : r \in ranges}) + 1

set_status_range(ranges, last, date_from, date_to, status, info) ==
    ranges \cup {[id |-> NextRangeId(ranges, last), date_from |-> date_from,
                  date_to |-> date_to, status |-> status, info |-> info]}

\* DELETE FROM status_ranges WHERE id = ?
delete_range(ranges, range_id) == {r \in ranges : r.id # range_id}

\* faulty variant: the flag of the row is inverted instead of set
UpdateIsPaid_Flip(cust, order_id, is_paid) ==
    {IF r.order_id = order_id THEN [r EXCEPT !.is_paid = ~r.is_paid] ELSE r : r \in cust}

\* UPDATE customers SET is_paid = ? WHERE order_id = ?
UpdateIsPaid(cust, order_id, is_paid) ==
    {IF r.order_id = order_id THEN [r EXCEPT !.is_paid = is_paid] ELSE r : r \in cust}

----------------------------------------------------------------------------
(* Sessions *)

NoState == "None"
EmptyData == [k \in {} |-> << >>]

FsmStates == {NoState, "waiting_order_date", "waiting_date_from", "waiting_date_to",
              "waiting_status", "waiting_info", "waiting_user_id", "waiting_action"}

\* faulty variant: the data is replaced, as by state.set_data
UpdateData_Replace(data, key, value) == (key :> value)

\* state.update_data(key=value)
UpdateData(data, key, value) == (key :> value) @@ data

\* faulty variant: one state and one data for the whole bot
Session_Global(u, st, data, h) ==
    /\ fsm_state' = [v \in Users |-> st]
    /\ fsm_data' = [v \in Users |-> data]
    /\ run' = [v \in Users |-> h]

\* the session of user u becomes (st, data); h is the history kept with it
Session(u, st, data, h) ==
    /\ fsm_state' = [fsm_state EXCEPT ![u] = st]
    /\ fsm_data' = [fsm_data EXCEPT ![u] = data]
    /\ run' = [run EXCEPT ![u] = h]

\* faulty variant: the handler returns without state.clear()
Clear_Missing(u) == UNCHANGED <<fsm_state, fsm_data, run>>

\* state.clear()
Clear(u) == Session(u, NoState, EmptyData, << >>)

\* state.clear() followed by state.set_state(st)
Enter(u, st) == Session(u, st, EmptyData, << >>)

SessionUnchanged == UNCHANGED <<fsm_state, fsm_data, run>>
TablesUnchanged == UNCHANGED <<customers, status_ranges, seq>>

Answer(kind) == reply' = [kind |-> kind, arg |-> << >>]
AnswerWith(kind, arg) == reply' = [kind |-> kind, arg |-> arg]

\* faulty variant: the identity check is missing
NotAdmin_Unchecked(u) == FALSE

\* message.from_user.id != ADMIN_ID
NotAdmin(u) == u # ADMIN_ID

----------------------------------------------------------------------------
(* The router: the first registered handler whose filters pass *)

\* Command('start') and Command('admin')
IsCommand(t, cmd) == t # NoText /\ StartsWith(t, cmd[1]) /\ (Len(t) = 1 \/ t[2] = " ")

\* faulty variant: start is registered after the handler of the order date
RouteMessage_StartSecond(u, t) ==
    IF fsm_state[u] = "waiting_order_date" THEN "register_order"
    ELSE IF IsCommand(t, CMD_START) THEN "start"
    ELSE IF t = LBL_MY_STATUS THEN "check_my_status"
    ELSE IF t = LBL_CHANGE_DATE THEN "change_order_btn"
    ELSE IF IsCommand(t, CMD_ADMIN) THEN "admin_start"
    ELSE IF t = LBL_SET_STATUSES THEN "set_range_btn"
    ELSE IF fsm_state[u] = "waiting_date_from" THEN "date_from"
    ELSE IF fsm_state[u] = "waiting_date_to" THEN "date_to"
    ELSE IF fsm_state[u] = "waiting_info" THEN "set_info"
    ELSE IF t = LBL_VIEW_RANGES THEN "view_ranges"
    ELSE IF t # NoText /\ StartsWith(t, "/delete_") THEN "delete_btn"
    ELSE IF t = LBL_MANAGE_PAYMENT THEN "manage_payment_btn"
    ELSE IF fsm_state[u] = "waiting_user_id" THEN "get_order_id"
    ELSE IF t = LBL_EXIT_ADMIN THEN "exit_admin"
    ELSE "unhandled"

\* the router.message handlers in the order of their registration
RouteMessage(u, t) ==
    IF IsCommand(t, CMD_START) THEN "start"
    ELSE IF fsm_state[u] = "waiting_order_date" THEN "register_order"
    ELSE IF t = LBL_MY_STATUS THEN "check_my_status"
    ELSE IF t = LBL_CHANGE_DATE THEN "change_order_btn"
    ELSE IF IsCommand(t, CMD_ADMIN) THEN "admin_start"
    ELSE IF t = LBL_SET_STATUSES THEN "set_range_btn"
    ELSE IF fsm_state[u] = "waiting_date_from" THEN "date_from"
    ELSE IF fsm_state[u] = "waiting_date_to" THEN "date_to"
    ELSE IF fsm_state[u] = "waiting_info" THEN "set_info"
    ELSE IF t = LBL_VIEW_RANGES THEN "view_ranges"
    ELSE IF t # NoText /\ StartsWith(t, "/delete_") THEN "delete_btn"
    ELSE IF t = LBL_MANAGE_PAYMENT THEN "manage_payment_btn"
    ELSE IF fsm_state[u] = "waiting_user_id" THEN "get_order_id"
    ELSE IF t = LBL_EXIT_ADMIN THEN "exit_admin"
    ELSE "unhandled"

RouteCallback(u, c) ==
    IF c = CB_REGISTER_ORDER THEN "register_order_callback"
    ELSE IF c = CB_QUICK_CHECK THEN "quick_check_callback"
    ELSE IF StartsWith(c, "status_") /\ fsm_state[u] = "waiting_status" THEN "choose_status"
    ELSE IF StartsWith(c, "payment_") /\ fsm_state[u] = "waiting_action" THEN "set_payment"
    ELSE "unhandled"

----------------------------------------------------------------------------
(* Customer handlers *)

\* /start
start(u, t) ==
    /\ RouteMessage(u, t) = "start"
    /\ Clear(u)
    /\ TablesUnchanged
    /\ \E db_ok \in BOOLEAN :
         IF db_ok /\ get_customer_by_user_id(customers, u) # {}
         THEN Answer("hello_order") ELSE Answer("hello_menu")

\* callback register_order
register_order_callback(u, c) ==
    /\ RouteCallback(u, c) = "register_order_callback"
    /\ Enter(u, "waiting_order_date")
    /\ TablesUnchanged
    /\ Answer("ask_order_date")

\* faulty variant: the check entry is remembered in the collected fields
quick_check_callback_Marked(u, c) ==
    /\ RouteCallback(u, c) = "quick_check_callback"
    /\ Session(u, "waiting_order_date", UpdateData(EmptyData, "mode", <<"check">>), << >>)
    /\ TablesUnchanged
    /\ Answer("ask_check_date")

\* callback quick_check
quick_check_callback(u, c) ==
    /\ RouteCallback(u, c) = "quick_check_callback"
    /\ Enter(u, "waiting_order_date")
    /\ TablesUnchanged
    /\ Answer("ask_check_date")

\* any message while in RegisterOrderState.waiting_order_date
register_order(u, t) ==
    /\ RouteMessage(u, t) = "register_order"
    /\ status_ranges' = status_ranges /\ seq' = seq
    /\ IF t = NoText
       THEN \* None.strip() raises; the dispatcher logs it and goes on
            /\ Answer("exception") /\ SessionUnchanged /\ customers' = customers
       ELSE LET order_date == Strip(t) IN
            IF ~validate_date(order_date)
            THEN /\ Answer("bad_format") /\ SessionUnchanged /\ customers' = customers
            ELSE /\ \E db_ok \in BOOLEAN :
                      IF db_ok
                      THEN \E proposals \in Proposals :
                             /\ LoopRun(customers, proposals)
                             /\ customers' = save_customer_order(customers, u, order_date, proposals)
                             /\ Answer("registered")
                      ELSE /\ customers' = customers
                           /\ Answer("save_error")
                 /\ Clear(u)

\* faulty variant: the status is looked up without the test of is_paid
check_my_status_Ungated(u, t) ==
    /\ RouteMessage(u, t) = "check_my_status"
    /\ SessionUnchanged
    /\ TablesUnchanged
    /\ \E db_ok \in BOOLEAN :
       LET customer == IF db_ok THEN get_customer_by_user_id(customers, u) ELSE {} IN
       IF customer = {} THEN Answer("order_missing")
       ELSE LET row == CHOOSE r \in customer : TRUE
                result == get_status_for_date(status_ranges, row.order_date)
            IN  IF result.found THEN AnswerWith("status", result.status)
                ELSE Answer("status_unset")

\* label "My status"
check_my_status(u, t) ==
    /\ RouteMessage(u, t) = "check_my_status"
    /\ SessionUnchanged
    /\ TablesUnchanged
    /\ \E db_ok \in BOOLEAN :
       LET customer == IF db_ok THEN get_customer_by_user_id(customers, u) ELSE {} IN
       IF customer = {} THEN Answer("order_missing")
       ELSE LET row == CHOOSE r \in customer : TRUE IN
            IF ~row.is_paid THEN Answer("not_paid")
            ELSE LET result == get_status_for_date(status_ranges, row.order_date) IN
                 IF result.found THEN AnswerWith("status", result.status)
                 ELSE Answer("status_unset")

\* label "Change date"
change_order_btn(u, t) ==
    /\ RouteMessage(u, t) = "change_order_btn"
    /\ Enter(u, "waiting_order_date")
    /\ TablesUnchanged
    /\ Answer("ask_new_date")

----------------------------------------------------------------------------
(* Administrator handlers *)

\* /admin
admin_start(u, t) ==
    /\ RouteMessage(u, t) = "admin_start"
    /\ TablesUnchanged
    /\ IF NotAdmin(u) THEN Answer("only_admin") /\ SessionUnchanged
       ELSE Clear(u) /\ Answer("admin_panel")

\* label "Set statuses"
set_range_btn(u, t) ==
    /\ RouteMessage(u, t) = "set_range_btn"
    /\ TablesUnchanged
    /\ IF NotAdmin(u) THEN Answer("only_admin") /\ SessionUnchanged
       ELSE Enter(u, "waiting_date_from") /\ Answer("ask_date_from")

\* any message while in SetStatusRangeState.waiting_date_from
date_from(u, t) ==
    /\ RouteMessage(u, t) = "date_from"
    /\ TablesUnchanged
    /\ IF t = NoText THEN Answer("exception") /\ SessionUnchanged
       ELSE LET d == Strip(t) IN
            IF ~validate_date(d) THEN Answer("bad_format") /\ SessionUnchanged
            ELSE /\ Session(u, "waiting_date_to", UpdateData(fsm_data[u], "date_from", d),
                            Append(run[u], <<"waiting_date_from", d>>))
                 /\ Answer("ask_date_to")

\* any message while in SetStatusRangeState.waiting_date_to
date_to(u, t) ==
    /\ RouteMessage(u, t) = "date_to"
    /\ TablesUnchanged
    /\ IF t = NoText THEN Answer("exception") /\ SessionUnchanged
       ELSE LET d == Strip(t) IN
            IF ~validate_date(d) THEN Answer("bad_format") /\ SessionUnchanged
            ELSE /\ Session(u, "waiting_status", UpdateData(fsm_data[u], "date_to", d),
                            Append(run[u], <<"waiting_date_to", d>>))
                 /\ Answer("ask_status")

\* callback status_* while in SetStatusRangeState.waiting_status
choose_status(u, c) ==
    /\ RouteCallback(u, c) = "choose_status"
    /\ TablesUnchanged
    /\ LET status == Remove(c, "status_") IN
       Session(u, "waiting_info", UpdateData(fsm_data[u], "status", status),
               Append(run[u], <<"waiting_status", status>>))
    /\ Answer("ask_info")

\* any message while in SetStatusRangeState.waiting_info
set_info(u, t, cap) ==
    /\ RouteMessage(u, t) = "set_info"
    /\ customers' = customers
    /\ LET data == fsm_data[u] IN
       IF t = NoText \/ ~({"date_from", "date_to", "status"} \subseteq DOMAIN data)
       THEN \* None.strip() or data[...] raises
            /\ Answer("exception") /\ SessionUnchanged
            /\ status_ranges' = status_ranges /\ seq' = seq
       ELSE LET info == Take(Strip(t), InfoMaxLen) IN
            /\ \E db_ok \in BOOLEAN :
               IF db_ok
               THEN /\ seq < cap
                    /\ status_ranges' = set_status_range(status_ranges, seq, data["date_from"],
                                                         data["date_to"], data["status"], info)
                    /\ seq' = NextRangeId(status_ranges, seq)
                    /\ Answer("range_done")
               ELSE /\ status_ranges' = status_ranges /\ seq' = seq
                    /\ Answer("range_error")
            /\ Clear(u)

\* label "View ranges"
view_ranges(u, t) ==
    /\ RouteMessage(u, t) = "view_ranges"
    /\ TablesUnchanged
    /\ SessionUnchanged
    /\ IF NotAdmin(u) THEN Answer("only_admin")
       ELSE \E db_ok \in BOOLEAN :
              IF db_ok /\ status_ranges # {} THEN Answer("ranges_list")
              ELSE Answer("no_ranges")

\* /delete_<id>
delete_btn(u, t) ==
    /\ RouteMessage(u, t) = "delete_btn"
    /\ SessionUnchanged
    /\ customers' = customers /\ seq' = seq
    /\ IF NotAdmin(u) THEN Answer("only_admin") /\ status_ranges' = status_ranges
       ELSE LET arg == Remove(t, "/delete_") IN
            IF ~IntOk(arg) THEN Answer("delete_error") /\ status_ranges' = status_ranges
            ELSE \E db_ok \in BOOLEAN :
                 IF db_ok
                 THEN /\ status_ranges' = delete_range(status_ranges, DigitsValue(arg))
                      /\ Answer("range_deleted")
                 ELSE /\ status_ranges' = status_ranges
                      /\ Answer("range_not_found")

\* label "Manage payment"
manage_payment_btn(u, t) ==
    /\ RouteMessage(u, t) = "manage_payment_btn"
    /\ TablesUnchanged
    /\ IF NotAdmin(u) THEN Answer("only_admin") /\ SessionUnchanged
       ELSE Enter(u, "waiting_user_id") /\ Answer("ask_order_id")

\* any message while in PaymentState.waiting_user_id
get_order_id(u, t) ==
    /\ RouteMessage(u, t) = "get_order_id"
    /\ TablesUnchanged
    /\ IF t = NoText THEN Answer("order_id_error") /\ SessionUnchanged
       ELSE \E db_ok \in BOOLEAN :
            LET order_id == Upper(Strip(t))
                customer == IF db_ok THEN get_customer_by_order_id(customers, order_id) ELSE {}
            IN  IF customer = {} THEN Answer("order_not_found") /\ Clear(u)
                ELSE /\ Session(u, "waiting_action", UpdateData(fsm_data[u], "order_id", order_id),
                                Append(run[u], <<"waiting_user_id", order_id>>))
                     /\ Answer("order_found")

\* callback payment_* while in PaymentState.waiting_action
set_payment(u, c) ==
    /\ RouteCallback(u, c) = "set_payment"
    /\ status_ranges' = status_ranges /\ seq' = seq
    /\ IF "order_id" \notin DOMAIN fsm_data[u]
       THEN Answer("exception") /\ SessionUnchanged /\ customers' = customers
       ELSE LET order_id == fsm_data[u]["order_id"]
                is_paid == (c = <<"payment_", "yes">>)
            IN  /\ \E db_ok \in BOOLEAN :
                   IF db_ok
                   THEN /\ customers' = UpdateIsPaid(customers, order_id, is_paid)
                        /\ Answer("payment_done")
                   ELSE /\ customers' = customers
                        /\ Answer("payment_error")
                /\ Clear(u)

\* label "Exit admin"
exit_admin(u, t) ==
    /\ RouteMessage(u, t) = "exit_admin"
    /\ TablesUnchanged
    /\ Clear(u)
    /\ Answer("left_admin")

\* an update no handler takes
unhandled_message(u, t) ==
    /\ RouteMessage(u, t) = "unhandled"
    /\ TablesUnchanged /\ SessionUnchanged
    /\ Answer("none")

unhandled_callback(u, c) ==
    /\ RouteCallback(u, c) = "unhandled"
    /\ TablesUnchanged /\ SessionUnchanged
    /\ Answer("none")

----------------------------------------------------------------------------
(* The bot *)

\* the order an earlier run of the process left in orders.db
FirstOrder == [user_id |-> MaxUser, order_id |-> Token(1),
               order_date |-> DateText(7, 11, 2025), is_paid |-> TRUE]

\* a start of the process: the store holds one order of a customer and no range
\* (init_db creates the tables only if they do not exist), no session exists
Init ==
    /\ customers = {FirstOrder}
    /\ status_ranges = {}
    /\ seq = 0
    /\ fsm_state = [u \in Users |-> NoState]
    /\ fsm_data = [u \in Users |-> EmptyData]
    /\ run = [u \in Users |-> << >>]
    /\ reply = [kind |-> "none", arg |-> << >>]

\* one update from user u, drawn from the environment E
Update(u, E) ==
        \/ start(u, CMD_START)
        \/ register_order_callback(u, CB_REGISTER_ORDER)
        \/ quick_check_callback(u, CB_QUICK_CHECK)
        \/ \E t \in OrderDateInputs(E) : register_order(u, t)
        \/ check_my_status(u, LBL_MY_STATUS)
        \/ change_order_btn(u, LBL_CHANGE_DATE)
        \/ admin_start(u, CMD_ADMIN)
        \/ set_range_btn(u, LBL_SET_STATUSES)
        \/ \E t \in DateFromInputs(E) : date_from(u, t)
        \/ \E t \in DateToInputs(E) : date_to(u, t)
        \/ \E c \in E.statuses : choose_status(u, c)
        \/ \E t \in InfoInputs(E) : set_info(u, t, E.max_ranges)
        \/ view_ranges(u, LBL_VIEW_RANGES)
        \/ \E t \in DeleteInputs : delete_btn(u, t)
        \/ manage_payment_btn(u, LBL_MANAGE_PAYMENT)
        \/ \E t \in OrderIdInputs : get_order_id(u, t)
        \/ \E c \in PaymentPayloads : set_payment(u, c)
        \/ exit_admin(u, LBL_EXIT_ADMIN)
        \/ \E t \in BadDates : unhandled_message(u, t)
        \/ \E c \in E.statuses \cup PaymentPayloads : unhandled_callback(u, c)

\* the update is the message with text t from user u
Sends(u, t, E) ==
    \/ start(u, t)
    \/ t \in OrderDateInputs(E) /\ register_order(u, t)
    \/ check_my_status(u, t)
    \/ change_order_btn(u, t)
    \/ admin_start(u, t)
    \/ set_range_btn(u, t)
    \/ t \in DateFromInputs(E) /\ date_from(u, t)
    \/ t \in DateToInputs(E) /\ date_to(u, t)
    \/ t \in InfoInputs(E) /\ set_info(u, t, E.max_ranges)
    \/ view_ranges(u, t)
    \/ t \in DeleteInputs /\ delete_btn(u, t)
    \/ manage_payment_btn(u, t)
    \/ t \in OrderIdInputs /\ get_order_id(u, t)
    \/ exit_admin(u, t)
    \/ t \in BadDates /\ unhandled_message(u, t)

\* the update is the callback with payload c from user u
Presses(u, c, E) ==
    \/ register_order_callback(u, c)
    \/ quick_check_callback(u, c)
    \/ c \in E.statuses /\ choose_status(u, c)
    \/ c \in PaymentPayloads /\ set_payment(u, c)
    \/ c \in E.statuses \cup PaymentPayloads /\ unhandled_callback(u, c)

\* dp.start_polling: the updates are handled one at a time
Bot(E) == \E u \in Users : Update(u, E)

NextOrders == Bot(OrdersEnv)
NextRanges == Bot(RangesEnv)
NextFull == Bot(FullEnv)

SpecOrders == Init /\ [][NextOrders]_vars
SpecRanges == Init /\ [][NextRanges]_vars
SpecFull == Init /\ [][NextFull]_vars

\* one customer registers again and again, typing any of the date texts
NextDates ==
    \/ register_order_callback(MaxUser, CB_REGISTER_ORDER)
    \/ \E t \in DateTexts : register_order(MaxUser, t)

SpecDates == Init /\ [][NextDates]_vars


----------------------------------------------------------------------------
(* Calendar dates, for the statements about the resolver *)

\* the day a validated text denotes, as a number that orders the calendar
DayNumber(s) == LET p == StrpTime(s) IN p.year * 10000 + p.month * 100 + p.day

\* the interval [date_from, date_to] of row r contains date d as a calendar date
Contains(r, d) ==
    DayNumber(r.date_from) <= DayNumber(d) /\ DayNumber(d) <= DayNumber(r.date_to)

\* the order dates the resolver is asked about
ProbeDates == {DateText(1, 11, 2025), DateText(2, 11, 2025), DateText(7, 11, 2025),
               DateText(10, 11, 2025), DateText(20, 11, 2025), DateText(5, 12, 2025),
               DateText(9, 10, 2025)}

\* C1 (as claimed): for every order date and every stored table,
\* get_status_for_date returns the status and info of a range whose interval
\* contains the date as a calendar date, and none exactly when no range does.
C1_ResolverIsCalendar ==
    \A d \in ProbeDates :
        LET res == get_status_for_date(status_ranges, d)
            cal == {r \in status_ranges : Contains(r, d)}
        IN  /\ res.found => \E r \in cal : r.status = res.status /\ r.info = res.info
            /\ ~res.found <=> cal = {}

\* the table of the example of the specification
ExampleRanges ==
    {[id |-> 1, date_from |-> DateText(1, 11, 2025), date_to |-> DateText(10, 11, 2025),
      status |-> <<"waiting">>, info |-> << >>],
     [id |-> 2, date_from |-> DateText(5, 11, 2025), date_to |-> DateText(15, 11, 2025),
      status |-> <<"in_transit">>, info |-> << >>]}

\* among the rows of the table that satisfy the query for d, the one inserted last
HighestMatch(ranges, d) ==
    LET hits == {r \in ranges : RangeMatches(r, d)}
    IN  {r \in hits : \A q \in hits : q.id <= r.id}

C2_HighestWins ==
    /\ \A r, q \in status_ranges : r.id = q.id => r = q
    /\ \A r \in status_ranges : r.id \in 1..seq
    /\ \A d \in ProbeDates :
         LET res == get_status_for_date(status_ranges, d) IN
         IF \E r \in status_ranges : RangeMatches(r, d)
         THEN res.found /\ \E r \in HighestMatch(status_ranges, d) :
                              r.status = res.status /\ r.info = res.info
         ELSE ~res.found
    /\ get_status_for_date(ExampleRanges, DateText(7, 11, 2025)).status = <<"in_transit">>
    /\ get_status_for_date(ExampleRanges, DateText(2, 11, 2025)).status = <<"waiting">>
    /\ ~get_status_for_date(ExampleRanges, DateText(20, 11, 2025)).found

C2_IdsGrow ==
    /\ seq' >= seq
    /\ \A r \in status_ranges' \ status_ranges :
         /\ r.id > seq /\ r.id <= seq'
         /\ \A q \in status_ranges : q.id < r.id

\* C2: after any commits and deletions, when several present ranges satisfy
\* the query for an order date the resolver returns the one with the highest
\* id; ids are never reused, a later insertion always gets an id above every
\* id given out before (seq); the example 07.11 / 02.11 / 20.11 resolves to
\* in_transit / waiting / none.
C2_MostRecentRangeWins == [] C2_HighestWins /\ [][C2_IdsGrow]_vars

\* two present ranges match 07.11.2025 and the later one decides
C2_Witness ==
    \E r, q \in status_ranges :
        /\ r.id < q.id /\ r.status # q.status
        /\ RangeMatches(r, DateText(7, 11, 2025)) /\ RangeMatches(q, DateText(7, 11, 2025))
        /\ get_status_for_date(status_ranges, DateText(7, 11, 2025)).status = q.status


----------------------------------------------------------------------------
(* Authorization *)

AdminStates == {"waiting_date_from", "waiting_date_to", "waiting_status", "waiting_info",
                "waiting_user_id", "waiting_action"}

\* an update sent by someone else than the administrator
NonAdminUpdate(u, E) == u # ADMIN_ID /\ Update(u, E)

\* the step leaves the ranges and every is_paid flag as they were and is no
\* step of the payment toggle of user u
C3_Untouched(u) ==
    /\ status_ranges' = status_ranges /\ seq' = seq
    /\ \A r \in customers : \E q \in customers' :
           q.user_id = r.user_id /\ q.is_paid = r.is_paid
    /\ \A c \in PaymentPayloads : ~set_payment(u, c)

C3_NonAdminStep ==
    \A u \in Users : C3_Untouched(u) \/ ~NonAdminUpdate(u, RangesEnv)

C3_NonAdminSession == \A u \in Users : u # ADMIN_ID => fsm_state[u] \notin AdminStates

\* C3: no update sent by a user other than ADMIN_ID inserts or deletes a row
\* of status_ranges or is a step of the payment toggle (the is_paid flags are
\* left as they were); no session of such a user is ever in a state of
\* SetStatusRangeState or PaymentState.
C3_OnlyAdminMutates == [] C3_NonAdminSession /\ [][C3_NonAdminStep]_vars

\* a customer was turned away while a range and an unpaid order exist
C3_Witness ==
    /\ reply.kind = "only_admin"
    /\ status_ranges # {}
    /\ \E r \in customers : ~r.is_paid

----------------------------------------------------------------------------
(* Orders *)

UserIds(cust) == {r.user_id : r \in cust}
OrderIds(cust) == {r.order_id : r \in cust}

\* user u sent a valid date at the order-date prompt and the store took it
Registered(u, t) == reply'.kind = "registered" /\ register_order(u, t)

C4_Unique ==
    \A r, q \in customers : (r.order_id = q.order_id \/ r.user_id = q.user_id) => r = q

C4_Step ==
    /\ UserIds(customers) \subseteq UserIds(customers')
    /\ \A u \in Users : \A t \in OrderDateInputs(OrdersEnv) :
         Registered(u, t) => /\ UserIds(customers') = UserIds(customers) \cup {u}
                             /\ Cardinality(customers') = Cardinality(UserIds(customers'))
                             /\ Cardinality(OrderIds(customers')) = Cardinality(customers')

\* C4: no two rows of customers share an order_id or a user_id; no
\* registration removes the row of another user, so N distinct users that
\* registered have N rows with N distinct order_ids.
C4_OrderIdsUnique == [] C4_Unique /\ [][C4_Step]_vars

\* both users hold an order and the administrator's was registered after
\* the customer's was replaced
C4_Witness ==
    /\ Cardinality(customers) = MaxUser + 1
    /\ Cardinality(OrderIds(customers)) = MaxUser + 1
    /\ reply.kind = "registered"
    /\ FirstOrder.order_id \notin OrderIds(customers)

C5_Step ==
    \A u \in Users : \A t \in OrderDateInputs(OrdersEnv) :
        (Registered(u, t) /\ u \in UserIds(customers)) =>
            LET old == CHOOSE r \in customers : r.user_id = u
                new == {r \in customers' : r.user_id = u}
            IN  /\ Cardinality(new) = 1
                /\ \A r \in new : /\ r.order_id # old.order_id
                                  /\ r.order_id \notin OrderIds(customers)
                                  /\ r.order_date = Strip(t)
                                  /\ r.is_paid
                /\ {r \in customers' : r.user_id # u} = {r \in customers : r.user_id # u}

\* C5: when a user that has a row enters a valid date at the order-date
\* prompt (and the store takes it), the row of that user afterwards holds a
\* newly generated order_id different from the prior one, the entered date
\* and is_paid = true, whatever is_paid was; the rows of the others are as
\* they were.
C5_ReRegistrationOverwrites == [][C5_Step]_vars

\* the customer's first order was replaced: another id, another date, paid
C5_Witness ==
    /\ reply.kind = "registered"
    /\ \E r \in customers : /\ r.user_id = FirstOrder.user_id
                            /\ r.order_id # FirstOrder.order_id
                            /\ r.order_date = DateText(5, 12, 2025)
                            /\ r.is_paid
    /\ fsm_state[FirstOrder.user_id] = NoState


----------------------------------------------------------------------------
(* The dialogues *)

\* the step leaves the session of u and both tables as they were
Untouched(u) ==
    /\ fsm_state'[u] = fsm_state[u] /\ fsm_data'[u] = fsm_data[u]
    /\ customers' = customers /\ status_ranges' = status_ranges /\ seq' = seq

\* strptime does not take the text, stripped as the handlers strip it
Malformed(t) == t # NoText /\ ~StrpTime(Strip(t)).ok

MalformedTexts ==
    {t \in OrderDateInputs(RangesEnv) \cup DateFromInputs(RangesEnv)
             \cup DateToInputs(RangesEnv) : Malformed(t)}

C6_Step ==
    \A u \in Users : \A t \in MalformedTexts :
        \/ Untouched(u)
        \/ ~(register_order(u, t) \/ date_from(u, t) \/ date_to(u, t))

\* C6: at each of the three date prompts a text that validate_date rejects
\* (called on the stripped text, as the handlers call it) leaves the session
\* of the user in the same state with the same collected fields and leaves
\* both tables unchanged.
C6_MalformedDateStays == [][C6_Step]_vars

\* the administrator is asked again for the end date; the start date is kept
C6_Witness ==
    /\ reply.kind = "bad_format"
    /\ fsm_state[ADMIN_ID] = "waiting_date_to"
    /\ DOMAIN fsm_data[ADMIN_ID] = {"date_from"}
    /\ status_ranges # {}

\* the events that enter a dialogue, with the first state of the dialogue
EntryTexts(u) ==
    {<<LBL_CHANGE_DATE, "waiting_order_date">>} \cup
    (IF u = ADMIN_ID THEN {<<LBL_SET_STATUSES, "waiting_date_from">>,
                           <<LBL_MANAGE_PAYMENT, "waiting_user_id">>}
     ELSE {})

EntryPayloads == {<<CB_REGISTER_ORDER, "waiting_order_date">>,
                  <<CB_QUICK_CHECK, "waiting_order_date">>}

Entered(u, st) == fsm_state'[u] = st /\ fsm_data'[u] = EmptyData

C7_Step ==
    \A u \in Users :
        /\ \A e \in EntryTexts(u) : Entered(u, e[2]) \/ ~Sends(u, e[1], OrdersEnv)
        /\ \A e \in EntryPayloads : Entered(u, e[2]) \/ ~Presses(u, e[1], OrdersEnv)

\* C7 (as claimed): from any session state, an event that enters a dialogue
\* (the register_order or quick_check selection, the change-date label, for
\* the administrator the set-statuses and the manage-payment label) leaves the
\* session of that user in the first state of that dialogue with no collected
\* field.
C7_EntryRestartsFlow == [][C7_Step]_vars

C8_Step ==
    \A r \in status_ranges' \ status_ranges :
        /\ status_ranges' = status_ranges \cup {r}
        /\ Len(r.info) <= InfoMaxLen
        /\ \E u \in Users : \E t \in InfoInputs(RangesEnv) :
             /\ fsm_state[u] = "waiting_info"
             /\ run[u] = << <<"waiting_date_from", r.date_from>>,
                            <<"waiting_date_to", r.date_to>>,
                            <<"waiting_status", r.status>> >>
             /\ t # NoText
             /\ Len(r.info) <= Len(Strip(t))
             /\ r.info = SubSeq(Strip(t), 1, Len(r.info))
             /\ (Len(r.info) < InfoMaxLen => r.info = Strip(t))
             /\ fsm_state'[u] = NoState
             /\ set_info(u, t, RangesEnv.max_ranges)

\* C8: a row of status_ranges is inserted only by the step at the comment
\* prompt, by a session that since its last reset accepted, in this order, a
\* start date, an end date and a status; the row holds exactly these three
\* values and the entered text cut to at most 100 characters, and the session
\* is idle afterwards.
C8_RangeCommittedByFullRun == [][C8_Step]_vars

\* a range was committed with a comment cut to 100 characters
C8_Witness ==
    /\ reply.kind = "range_done"
    /\ fsm_state[ADMIN_ID] = NoState
    /\ \E r \in status_ranges : r.id = seq /\ Len(r.info) = InfoMaxLen

C9_NotFound ==
    \A u \in Users : \A t \in OrderIdInputs :
        \/ t = NoText
        \/ get_customer_by_order_id(customers, Upper(Strip(t))) # {}
        \/ ~get_order_id(u, t)
        \/ fsm_state'[u] = NoState /\ customers' = customers
                                   /\ status_ranges' = status_ranges

C9_Selected ==
    \A u \in Users : \A c \in PaymentPayloads :
        \/ reply'.kind # "payment_done"
        \/ ~set_payment(u, c)
        \/ /\ fsm_state'[u] = NoState
           /\ \E r \in customers' : /\ r.order_id = fsm_data[u]["order_id"]
                                    /\ r.is_paid = (c = <<"payment_", "yes">>)

\* C9 (as claimed): in the payment toggle an order_id without a row returns
\* the session to idle and changes no table; after the selection that follows
\* a found order_id (and that the store takes) a row with that order_id exists
\* whose is_paid equals the selection and the session is idle, whatever other
\* users did between the lookup and the selection.
C9_PaymentToggleSetsFlag == [][C9_NotFound /\ C9_Selected]_vars

C10_Step ==
    \A t \in DeleteInputs :
        LET arg == Remove(t, "/delete_") IN
        \/ ~IntOk(arg)
        \/ \E r \in status_ranges : r.id = DigitsValue(arg)
        \/ ~delete_btn(ADMIN_ID, t)
        \/ reply'.kind = "range_not_found" /\ status_ranges' = status_ranges

\* C10 (as claimed): /delete_<id> from the administrator for an id that no
\* row of status_ranges has reports not-found and leaves the table unchanged.
C10_DeleteMissingReportsNotFound == [][C10_Step]_vars

----------------------------------------------------------------------------
(* The stored values *)

C11_RowsClosed == \A r \in status_ranges : r.status \in STATUSES

C11_Step ==
    \A u \in Users : \A c \in FullEnv.statuses :
        \/ Remove(c, "status_") \in STATUSES
        \/ ~(fsm_state[u] = "waiting_status" /\ fsm_state'[u] = "waiting_info")
        \/ ~choose_status(u, c)

\* C11 (as claimed): the status of every row of status_ranges is one of
\* waiting, in_transit, delivered, and the step at the status choice advances
\* to the comment prompt and records a status only for a payload that names
\* one of these three, whatever payload the callback carries.
C11_StatusIsClosedSet == [] C11_RowsClosed /\ [][C11_Step]_vars


DateFields == {"date_from", "date_to"}

\* every date in a table or collected by a session is one strptime takes
C12_Stored ==
    /\ \A r \in customers : StrpTime(r.order_date).ok
    /\ \A r \in status_ranges : StrpTime(r.date_from).ok /\ StrpTime(r.date_to).ok
    /\ \A u \in Users : \A k \in DateFields \cap DOMAIN fsm_data[u] :
           StrpTime(fsm_data[u][k]).ok

\* a date enters a table or a session only from the text of this step, after
\* the handler's validation, or from the fields the session had collected
C12_Step ==
    /\ \A r \in customers' \ customers :
          \/ \E o \in customers : o.order_date = r.order_date
          \/ \E u \in Users : \E t \in OrderDateInputs(FullEnv) \ {NoText} :
                /\ r.order_date = Strip(t)
                /\ StrpTime(Strip(t)).ok
                /\ register_order(u, t)
    /\ \A r \in status_ranges' \ status_ranges :
          \E u \in Users :
                /\ DateFields \subseteq DOMAIN fsm_data[u]
                /\ r.date_from = fsm_data[u]["date_from"]
                /\ r.date_to = fsm_data[u]["date_to"]
    /\ \A u \in Users : \A k \in DateFields \cap DOMAIN fsm_data'[u] :
          \/ k \in DOMAIN fsm_data[u] /\ fsm_data'[u][k] = fsm_data[u][k]
          \/ \E t \in (DateFromInputs(FullEnv) \cup DateToInputs(FullEnv)) \ {NoText} :
                /\ fsm_data'[u][k] = Strip(t)
                /\ StrpTime(Strip(t)).ok
                /\ IF k = "date_from" THEN date_from(u, t) ELSE date_to(u, t)

\* C12: every order_date of a row of customers and every date_from and date_to
\* of a row of status_ranges is a text that the date validation accepted in
\* the step that collected it; no step stores a date that was not validated.
C12_StoredDatesValidated == [] C12_Stored /\ [][C12_Step]_vars

\* an order registered in this run and a range declared in this run
C12_Witness ==
    /\ \E r \in customers : r.order_id # FirstOrder.order_id
    /\ status_ranges # {}


\* DD.MM.YYYY with two digits, two digits, four digits, of a day that exists
StrictDate(s) ==
    /\ Len(s) = 10
    /\ \A i \in 1..10 : IF i \in {3, 6} THEN s[i] = "." ELSE IsDigit(s[i])
    /\ LET d == DigitsValue(SubSeq(s, 1, 2))
           m == DigitsValue(SubSeq(s, 4, 5))
           y == DigitsValue(SubSeq(s, 7, 10))
       IN  y >= 1 /\ m \in 1..12 /\ d >= 1 /\ d <= DaysInMonth(m, y)

C13_Step ==
    \A t \in DateTexts :
        \/ ~register_order(MaxUser, t)
        \/ (reply'.kind # "bad_format") <=> StrictDate(t)

\* C13 (as claimed): the date validation accepts every text of the exact form
\* DD.MM.YYYY that names a day of the calendar and rejects every other text:
\* wrong separators, wrong padding such as 1.1.2025, a day or a month out of
\* range, text without digits.
C13_ValidateDateIsStrict == [][C13_Step]_vars

----------------------------------------------------------------------------
(* Payment *)

C14_Step ==
    \A c \in PaymentPayloads :
        \/ reply'.kind # "payment_done"
        \/ ~set_payment(ADMIN_ID, c)
        \/ LET o == fsm_data[ADMIN_ID]["order_id"]
               sel == (c = <<"payment_", "yes">>)
           IN  /\ fsm_state'[ADMIN_ID] = NoState
               \* only is_paid of the row with that order_id changes
               /\ \A r \in customers :
                     IF r.order_id = o
                     THEN [r EXCEPT !.is_paid = sel] \in customers'
                     ELSE r \in customers'
               /\ Cardinality(customers') = Cardinality(customers)
               /\ status_ranges' = status_ranges
               \* the same selection once more: the table stays as it is
               /\ (\A r \in customers : r.order_id = o => r.is_paid = sel)
                     => customers' = customers

\* C14: the payment toggle is idempotent. A completion of the toggle (that the
\* store takes) changes only is_paid of the row with the looked-up order_id,
\* leaves its order_id, its order_date and every other row as they were, and
\* ends idle; a completion with the selection the row already has, as after a
\* first completion with the same selection, leaves the table equal.
C14_PaymentToggleIdempotent == [][C14_Step]_vars

\* the order was set to unpaid, which only the toggle does, and the toggle
\* was completed last
C14_Witness ==
    /\ reply.kind = "payment_done"
    /\ fsm_state[ADMIN_ID] = NoState
    /\ \E r \in customers : r.order_id = FirstOrder.order_id /\ ~r.is_paid

----------------------------------------------------------------------------
(* Frames *)

C15_Step ==
    \A u \in Users \ {ADMIN_ID} : \A t \in AdminTexts :
        \/ Untouched(u)
        \/ ~Sends(u, t, RangesEnv)

\* C15: when a user other than ADMIN_ID sends /admin, the set-statuses label,
\* the view-ranges label, /delete_<id> or the manage-payment label, the step
\* leaves the session state and the collected fields of that user exactly as
\* they were and leaves both tables unchanged.
C15_NonAdminRejectedWithoutEffect == [][C15_Step]_vars

\* a customer was refused while ranges exist
C15_Witness ==
    /\ reply.kind = "only_admin"
    /\ status_ranges # {}
    /\ fsm_state[ADMIN_ID] # NoState


C16_Step ==
    \A u \in Users :
        \/ /\ fsm_state'[u] = NoState /\ fsm_data'[u] = EmptyData
           /\ customers' = customers /\ status_ranges' = status_ranges
        \/ ~Sends(u, CMD_START, FullEnv)

\* C16: from every state of every dialogue /start returns the session of the
\* user to idle with every collected field discarded and changes neither
\* table; no handler of a pending state takes /start as its input.
C16_StartResets == [][C16_Step]_vars

\* /start was answered while both tables hold rows written in this run
C16_Witness ==
    /\ reply.kind \in {"hello_order", "hello_menu"}
    /\ status_ranges # {}
    /\ \E r \in customers : r.user_id = ADMIN_ID
    /\ \A u \in Users : fsm_state[u] = NoState


\* the replies of the three committing steps when the store refused
StoreFailed == {"save_error", "range_error", "payment_error"}

C17_Step ==
    \/ reply'.kind \notin StoreFailed
    \/ /\ customers' = customers /\ status_ranges' = status_ranges /\ seq' = seq
       /\ \E u \in Users :
            /\ fsm_state'[u] = NoState /\ fsm_data'[u] = EmptyData
            /\ \/ fsm_state[u] = "waiting_order_date" /\ reply'.kind = "save_error"
               \/ fsm_state[u] = "waiting_info" /\ reply'.kind = "range_error"
               \/ fsm_state[u] = "waiting_action" /\ reply'.kind = "payment_error"
            /\ \A v \in Users \ {u} : fsm_state'[v] = fsm_state[v]

\* C17: when the store operation of a committing step fails (the save of the
\* order at the order date, the insert of the range at the comment, the update
\* of is_paid at the payment choice) the session ends idle, the operation is
\* not tried again, and the step changes neither table.
C17_StoreFailureAbortsToIdle == [][C17_Step]_vars

\* the update of is_paid was refused; the order is as it was
C17_Witness ==
    /\ reply.kind = "payment_error"
    /\ fsm_state[ADMIN_ID] = NoState
    /\ FirstOrder \in customers
    /\ status_ranges # {}

----------------------------------------------------------------------------
(* The three entries to the order date *)

\* what the bot asked last, by entry
EntryReplies == {"ask_order_date", "ask_check_date", "ask_new_date"}

\* each of the three entries leaves the same session and the same tables
C18_Entry ==
    \A u \in Users :
        \/ ~(\/ register_order_callback(u, CB_REGISTER_ORDER)
             \/ quick_check_callback(u, CB_QUICK_CHECK)
             \/ change_order_btn(u, LBL_CHANGE_DATE))
        \/ /\ fsm_state' = [fsm_state EXCEPT ![u] = "waiting_order_date"]
           /\ fsm_data' = [fsm_data EXCEPT ![u] = EmptyData]
           /\ run' = [run EXCEPT ![u] = << >>]
           /\ customers' = customers /\ status_ranges' = status_ranges /\ seq' = seq
           /\ reply'.kind \in EntryReplies

\* whichever entry came last, a valid date rewrites the order in the same way
C18_Outcome ==
    \A u \in Users : \A t \in OrdersEnv.order_dates :
        \/ reply.kind \notin EntryReplies
        \/ ~register_order(u, t)
        \/ /\ fsm_state'[u] = NoState /\ fsm_data'[u] = EmptyData
           /\ IF reply'.kind = "registered"
              THEN \E r \in customers' :
                     /\ r.user_id = u /\ r.order_date = t /\ r.is_paid
                     /\ r.order_id \notin OrderIds(customers)
                     /\ customers' = {q \in customers : q.user_id # u} \cup {r}
              ELSE customers' = customers

\* C18: the effect of a valid date at the order-date prompt does not depend on
\* the entry (register_order, quick_check, the change-date label): the three
\* entries leave states that differ in nothing but the question asked, and
\* after each of them the date gives the same session state and the same row
\* (the date, is_paid = true, a fresh order_id); a check-status entry
\* therefore rewrites the order too.
C18_EntryIndistinguishable == [][C18_Entry /\ C18_Outcome]_vars

\* the customer's order was rewritten with another date; the administrator
\* is at the order-date prompt
C18_Witness ==
    /\ reply.kind = "registered"
    /\ fsm_state[ADMIN_ID] = "waiting_order_date"
    /\ \E r \in customers : /\ r.user_id = MaxUser
                            /\ r.order_date = DateText(5, 12, 2025)
                            /\ r.order_id # FirstOrder.order_id


C19_Step ==
    \A u \in Users :
        \/ fsm_state'[u] = fsm_state[u] /\ fsm_data'[u] = fsm_data[u]
        \/ /\ Update(u, FullEnv)
           /\ \A v \in Users \ {u} :
                 fsm_state'[v] = fsm_state[v] /\ fsm_data'[v] = fsm_data[v]

\* C19: the session state and the collected fields of a user change only in a
\* step that handles an update sent by that user; every update of another
\* user and every step without an update leaves them as they were, so a
\* session left in the middle of a dialogue stays there for any number of
\* updates of the others.
C19_SessionChangesOnlyOnOwnEvent == [][C19_Step]_vars

\* the customer registered while the administrator waits at the end date
C19_Witness ==
    /\ reply.kind = "registered"
    /\ fsm_state[ADMIN_ID] = "waiting_date_to"
    /\ DOMAIN fsm_data[ADMIN_ID] = {"date_from"}
    /\ \E r \in customers : r.user_id = MaxUser /\ r.order_id # FirstOrder.order_id


\* the fields a session in a state has collected
Collected(st) ==
    CASE st = "waiting_date_to" -> {"date_from"}
      [] st = "waiting_status"  -> {"date_from", "date_to"}
      [] st = "waiting_info"    -> {"date_from", "date_to", "status"}
      [] st = "waiting_action"  -> {"order_id"}
      [] OTHER -> {}

C20_FieldsMatch ==
    \A u \in Users : Collected(fsm_state[u]) \subseteq DOMAIN fsm_data[u]

\* set_info and set_payment find the fields they read
C20_NoMissingField ==
    /\ \A u \in Users : \A t \in InfoInputs(FullEnv) \ {NoText} :
          reply'.kind # "exception" \/ ~set_info(u, t, FullEnv.max_ranges)
    /\ \A u \in Users : \A c \in PaymentPayloads :
          reply'.kind # "exception" \/ ~set_payment(u, c)

\* C20: in every reachable state the collected fields match the session
\* state: date_from at the end date, date_from and date_to at the status
\* choice, these and status at the comment, order_id at the payment choice;
\* hence set_info and set_payment never read a field that is missing.
C20_CollectedFieldsMatchState == [] C20_FieldsMatch /\ [][C20_NoMissingField]_vars

\* the administrator is at the comment with the three fields collected
C20_Witness ==
    /\ fsm_state[ADMIN_ID] = "waiting_info"
    /\ DOMAIN fsm_data[ADMIN_ID] = {"date_from", "date_to", "status"}
    /\ fsm_data[ADMIN_ID]["status"] \in STATUSES

----------------------------------------------------------------------------
(* The status check *)

\* the replies for which the resolver was consulted
Resolved == {"status", "status_unset"}

C21_Step ==
    \A u \in Users :
        \/ ~check_my_status(u, LBL_MY_STATUS)
        \/ LET mine == {r \in customers : r.user_id = u} IN
           /\ fsm_state' = fsm_state /\ fsm_data' = fsm_data
           /\ customers' = customers /\ status_ranges' = status_ranges /\ seq' = seq
           /\ mine = {} => reply'.kind = "order_missing"
           /\ (\E r \in mine : ~r.is_paid) => reply'.kind \in {"not_paid", "order_missing"}
           /\ reply'.kind = "not_paid" => \E r \in mine : ~r.is_paid
           /\ reply'.kind \in Resolved => \E r \in mine : r.is_paid
           /\ reply'.kind = "status" =>
                 \E r \in mine : \E h \in HighestMatch(status_ranges, r.order_date) :
                     reply'.arg = h.status

\* C21: the status check reads only and is gated by payment. It reports the
\* status of a range only to a user whose row has is_paid true, and then that
\* of the resolver's row; with no row it reports not-found, with is_paid false
\* not-paid (not-found if the row cannot be read), in both cases without the
\* resolver; it changes neither table and no session.
C21_StatusCheckReadOnlyAndGated == [][C21_Step]_vars

\* the customer was told the order is unpaid although a range covers its date
C21_Witness ==
    /\ reply.kind = "not_paid"
    /\ \E r \in customers : /\ ~r.is_paid
                            /\ HighestMatch(status_ranges, r.order_date) # {}

====
